---- MODULE Spec2Model ----
(***************************************************************************)
(* Model of the Discord message retrieval of obsidian-discord-summarizer:  *)
(* Discord.getAllMessagesBetweenDates with Discord.fetchMessagesPage and   *)
(* Discord.handleResponse (src/src/discord/discord.ts), and the snowflake  *)
(* codec DateUtils (src/README.md, lines 41-165).                          *)
(*                                                                         *)
(* Encoding of JavaScript values                                           *)
(*   number | NaN            <<n>> | <<>>           (NaN == <<>>)          *)
(*   Date                    its time value, a number | NaN                *)
(*   Date | null             <<d>> | <<>>           (d a Date)             *)
(*   string                  a sequence of one-character strings           *)
(*   string | null           a character sequence | NullStr                *)
(* Times are milliseconds counted from an origin placed DISCORD_EPOCH ms   *)
(* before the Discord epoch: TLC's integers have 32 bits, the source's     *)
(* 1420070400000 does not fit, and only date - DISCORD_EPOCH enters the    *)
(* codec's arithmetic.                                                     *)
(***************************************************************************)
EXTENDS Integers, Sequences, FiniteSets, TLC

(***************************************************************************)
(* Bounds of the model                                                     *)
(***************************************************************************)
\* dates and timestamps range over DISCORD_EPOCH - 1 .. DISCORD_EPOCH + TimeSpan
TimeSpan == 1
\* message ids an arbitrary server may send: snowflakes 0 .. MaxId - 1
MaxId == 2
\* maxPages ranges over 0 .. MaxMaxPages
MaxMaxPages == 2
\* Retry-After header values have at most MaxHeaderLen characters
MaxHeaderLen == 2
\* the codec is applied to dates DISCORD_EPOCH - CodecSpan .. DISCORD_EPOCH + CodecSpan
CodecSpan == 60
\* snowflakes of channel messages carry a sequence number 0 .. MaxSeq
MaxSeq == 1

(***************************************************************************)
(* Program constants                                                       *)
(***************************************************************************)
\* 1420070400000 in the source, counted here from the model's origin
DISCORD_EPOCH == 1420
SnowflakeShift == 22
DefaultRetryAfter == 5
\* messages in a full page: limit=100 in the request and length === 100 in
\* the loop, scaled to 2
PageLimit == 2

NaN == <<>>
NullStr == <<"null">>
NullDate == <<>>
NoValue == <<>>

Times == (DISCORD_EPOCH - 1) .. (DISCORD_EPOCH + TimeSpan)
\* Date objects: valid ones and the Invalid Date
Dates == {<<t>> : t \in Times} \cup {NaN}

(***************************************************************************)
(* Strings and BigInt                                                      *)
(***************************************************************************)
Digits == <<"0", "1", "2", "3", "4", "5", "6", "7", "8", "9">>

IsDigit(c) == \E d \in 1..10 : Digits[d] = c

DigitValue(c) == (CHOOSE d \in 1..10 : Digits[d] = c) - 1

RECURSIVE NatToString(_)
NatToString(n) ==
    IF n < 10 THEN <<Digits[n + 1]>>
    ELSE NatToString(n \div 10) \o <<Digits[(n % 10) + 1]>>

\* BigInt.prototype.toString(): decimal digits, "-" for a negative value
BigIntToString(n) ==
    IF n < 0 THEN <<"-">> \o NatToString(0 - n) ELSE NatToString(n)

RECURSIVE DigitsToNat(_)
DigitsToNat(s) ==
    IF s = <<>> THEN 0
    ELSE 10 * DigitsToNat(SubSeq(s, 1, Len(s) - 1)) + DigitValue(s[Len(s)])

AllDigits(s) == \A i \in 1..Len(s) : IsDigit(s[i])

\* BigInt(string): <<n>>, or <<>> when it throws a SyntaxError
StringToBigInt(s) ==
    IF s = <<>> THEN <<0>>
    ELSE IF AllDigits(s) THEN <<DigitsToNat(s)>>
    ELSE IF Len(s) > 1 /\ s[1] \in {"-", "+"} /\ AllDigits(Tail(s))
         THEN <<(IF s[1] = "-" THEN 0 - 1 ELSE 1) * DigitsToNat(Tail(s))>>
    ELSE <<>>

\* string truthiness: null and "" are falsy
Truthy(s) == s # NullStr /\ s # <<>>

(***************************************************************************)
(* DateUtils                                                               *)
(***************************************************************************)
\* a decoder that leaves out the epoch
snowflakeToDateNoEpoch(snowflake) ==
    IF ~Truthy(snowflake) THEN NullDate
    ELSE LET big == StringToBigInt(snowflake) IN
         IF big = <<>> THEN NullDate
         ELSE << <<big[1] \div (2 ^ SnowflakeShift)>> >>

\* Date | null
snowflakeToDate(snowflake) ==
    IF ~Truthy(snowflake) THEN NullDate
    ELSE LET big == StringToBigInt(snowflake) IN
         IF big = <<>> THEN NullDate
         ELSE << <<(big[1] \div (2 ^ SnowflakeShift)) + DISCORD_EPOCH>> >>

\* string | null
dateToDiscordSnowflake(date) ==
    IF date = NaN THEN NullStr
    ELSE LET snowflake == BigIntToString((date[1] - DISCORD_EPOCH) * (2 ^ SnowflakeShift)) IN
         IF snowflakeToDate(snowflake) = NullDate THEN NullStr ELSE snowflake

(***************************************************************************)
(* JavaScript numbers: every comparison with NaN is false                  *)
(***************************************************************************)
Lt(a, b) == a # NaN /\ b # NaN /\ a[1] < b[1]
Le(a, b) == a # NaN /\ b # NaN /\ a[1] <= b[1]
Ge(a, b) == a # NaN /\ b # NaN /\ a[1] >= b[1]

HeaderChars == {"0", "1", "2", "x"}

RECURSIVE DigitPrefix(_)
DigitPrefix(s) ==
    IF s = <<>> \/ ~IsDigit(Head(s)) THEN <<>>
    ELSE <<Head(s)>> \o DigitPrefix(Tail(s))

RECURSIVE SkipWhiteSpace(_)
SkipWhiteSpace(s) ==
    IF s # <<>> /\ Head(s) = " " THEN SkipWhiteSpace(Tail(s)) ELSE s

\* parseInt(s, 10): leading white space, optional sign, the longest run of
\* decimal digits; NaN when there is no digit
parseInt(s) ==
    LET t == SkipWhiteSpace(s)
        signed == t # <<>> /\ Head(t) \in {"-", "+"}
        body == DigitPrefix(IF signed THEN Tail(t) ELSE t)
    IN IF body = <<>> THEN NaN
       ELSE <<(IF signed /\ Head(t) = "-" THEN 0 - 1 ELSE 1) * DigitsToNat(body)>>

(***************************************************************************)
(* Messages and pages                                                      *)
(***************************************************************************)
Message(id, timestamp) == [id |-> id, timestamp |-> timestamp]

\* new Date(msg.timestamp).getTime(): the timestamp's time value, NaN when
\* the string is not a date
msgTime(msg) == msg.timestamp

RECURSIVE SeqsUpTo(_, _)
SeqsUpTo(S, n) ==
    IF n = 0 THEN {<<>>}
    ELSE LET shorter == SeqsUpTo(S, n - 1) IN
         shorter \cup {Append(q, x) : q \in {r \in shorter : Len(r) = n - 1}, x \in S}

\* what a server may put in a page when nothing is assumed about it
AnyIds == {BigIntToString(i) : i \in 0..(MaxId - 1)}
AnyMessages == {Message(i, t) : i \in AnyIds, t \in Dates}
AnyPages == SeqsUpTo(AnyMessages, PageLimit)

\* an accumulator that is an array: every message is pushed
MapSetPush(map, msg) == Append(map, msg)

\* Map.prototype.set: an existing key keeps its place and takes the new value
MapSet(map, msg) ==
    IF \E i \in 1..Len(map) : map[i].id = msg.id
    THEN [i \in 1..Len(map) |-> IF map[i].id = msg.id THEN msg ELSE map[i]]
    ELSE Append(map, msg)

\* a scan that tests only the lower end of the window
RECURSIVE ScanPageNoUpper(_, _, _, _)
ScanPageNoUpper(acc, messages, from, to) ==
    IF messages = <<>> THEN [acc |-> acc, hit |-> FALSE]
    ELSE LET msg == Head(messages) IN
         IF Lt(msgTime(msg), from) THEN [acc |-> acc, hit |-> TRUE]
         ELSE ScanPageNoUpper(IF Ge(msgTime(msg), from) THEN MapSet(acc, msg) ELSE acc,
                              Tail(messages), from, to)

\* a scan that sets the flag at an old message and goes on (no break)
RECURSIVE ScanPageNoBreak(_, _, _, _)
ScanPageNoBreak(acc, messages, from, to) ==
    IF messages = <<>> THEN [acc |-> acc, hit |-> FALSE]
    ELSE LET msg == Head(messages)
             rest == ScanPageNoBreak(IF Ge(msgTime(msg), from) /\ Le(msgTime(msg), to)
                                     THEN MapSet(acc, msg) ELSE acc,
                                     Tail(messages), from, to)
         IN IF Lt(msgTime(msg), from) THEN [acc |-> rest.acc, hit |-> TRUE] ELSE rest

\* the for-of loop over one page: [acc, hit]
RECURSIVE ScanPage(_, _, _, _)
ScanPage(acc, messages, from, to) ==
    IF messages = <<>> THEN [acc |-> acc, hit |-> FALSE]
    ELSE LET msg == Head(messages) IN
         IF Lt(msgTime(msg), from) THEN [acc |-> acc, hit |-> TRUE]
         ELSE ScanPage(IF Ge(msgTime(msg), from) /\ Le(msgTime(msg), to)
                       THEN MapSet(acc, msg) ELSE acc,
                       Tail(messages), from, to)

\* Array.prototype.sort with (a, b) => time(a) - time(b): stable
RECURSIVE InsertSorted(_, _)
InsertSorted(sorted, msg) ==
    IF sorted = <<>> THEN <<msg>>
    ELSE IF Lt(msgTime(msg), msgTime(Head(sorted)))
         THEN <<msg>> \o sorted
         ELSE <<Head(sorted)>> \o InsertSorted(Tail(sorted), msg)

\* the Map's values in insertion order, unsorted
Unsorted(msgs) == msgs

RECURSIVE SortByTimestamp(_)
SortByTimestamp(msgs) ==
    IF msgs = <<>> THEN <<>>
    ELSE InsertSorted(SortByTimestamp(SubSeq(msgs, 1, Len(msgs) - 1)), msgs[Len(msgs)])

(***************************************************************************)
(* HTTP responses and errors                                               *)
(***************************************************************************)
\* an Error instance, and the plain object thrown for HTTP 429
ErrorObject(message) ==
    [isError |-> TRUE, message |-> message, status |-> NoValue, retryAfter |-> NoValue]
RateLimitObject(retryAfter) ==
    [isError |-> FALSE, message |-> "Rate limited by Discord API",
     status |-> <<429>>, retryAfter |-> retryAfter]

Headers == SeqsUpTo(HeaderChars, MaxHeaderLen) \cup {NullStr}
ErrorStatuses == {401, 403, 404, 429, 500}
\* a response: its status, its Retry-After header and, when ok, its JSON body
Response(status, retryAfterHeader, body) ==
    [status |-> status, retryAfter |-> retryAfterHeader, body |-> body]

StatusText(status) ==
    CASE status = 401 -> "401" [] status = 403 -> "403" [] status = 404 -> "404"
      [] status = 429 -> "429" [] OTHER -> "500"

\* parseInt(retryAfter, 10) || 5 with retryAfter = header || '5'
RetryAfterOf(header) ==
    LET retryAfter == IF Truthy(header) THEN header ELSE <<"5">>
        parsed == parseInt(retryAfter)
    IN IF parsed = NaN \/ parsed = <<0>> THEN <<DefaultRetryAfter>> ELSE parsed

\* the value handleResponse throws for a response that is not ok
handleResponse(response) ==
    CASE response.status = 401 ->
           ErrorObject("Invalid Discord token. Please check your credentials.")
      [] response.status = 403 ->
           ErrorObject("Access denied. Please ensure you have permission to view this channel.")
      [] response.status = 429 -> RateLimitObject(RetryAfterOf(response.retryAfter))
      [] response.status = 404 ->
           ErrorObject("Channel not found. Please check the channel ID.")
      [] OTHER -> ErrorObject("HTTP error! status: " \o StatusText(response.status))

\* the catch clause of getAllMessagesBetweenDates
WrapError(error) ==
    ErrorObject("Failed to fetch messages: " \o
                (IF error.isError THEN error.message ELSE "Unknown error"))

(***************************************************************************)
(* State                                                                   *)
(***************************************************************************)
VARIABLES
    fromDate, toDate, maxPages,    \* arguments of getAllMessagesBetweenDates
    now,                           \* the Date that new Date() yields
    pc,                            \* "idle", "fetch", "delay", "returned", "failed"
    effectiveToDate, currentBefore, allMessages, pageCount, hasMore, hitOldMessage,
    result,                        \* the array the call resolves with
    error,                         \* <<e>>: the Error the call rejects with
    requests,                      \* page requests issued so far
    delays,                        \* completed waits of rateLimitDelay
    reqBefore,                     \* <<c>>: the before parameter of the last request's URL
    response,                      \* <<r>>: the response to the last request, once it came
    prior,                         \* allMessages as it was when that response came
    cause,                         \* <<e>>: what fetchMessagesPage threw
    channel,                       \* messages held by a server with snowflake ids
    codec,                         \* the codec applied to one date
    ui,                            \* the date dialog and getDiscordSummary
    fmt,                           \* formatMessagesForPrompt applied to one array
    two                            \* two calls on one Discord instance

args == <<fromDate, toDate, maxPages, now>>
locals == <<effectiveToDate, currentBefore, allMessages, pageCount, hasMore, hitOldMessage>>
outcome == <<result, error, cause>>
wire == <<requests, delays, reqBefore, response, prior>>
extras == <<ui, fmt, two>>
vars == <<args, pc, locals, outcome, wire, channel, codec, extras>>

CodecIdle == [pc |-> "idle", date |-> NaN, snowflake |-> NullStr, decoded |-> NullDate]
UiIdle == [pc |-> "idle"]
FmtIdle == [pc |-> "idle"]
TwoIdle == [pc |-> "idle"]

\* nothing has run yet
Fresh ==
    /\ pc = "idle"
    /\ effectiveToDate = NaN /\ currentBefore = NullStr /\ allMessages = <<>>
    /\ pageCount = 0 /\ hasMore = TRUE /\ hitOldMessage = FALSE
    /\ result = <<>> /\ error = <<>> /\ cause = <<>>
    /\ requests = 0 /\ delays = 0 /\ reqBefore = <<>> /\ response = <<>> /\ prior = <<>>

Arguments ==
    /\ fromDate \in Dates
    /\ toDate \in {<<d>> : d \in Dates} \cup {NullDate}
    /\ maxPages \in 0..MaxMaxPages
    /\ now = <<DISCORD_EPOCH + TimeSpan>>

Init ==
    /\ Arguments
    /\ Fresh
    /\ channel = {}
    /\ codec = CodecIdle
    /\ ui = UiIdle /\ fmt = FmtIdle /\ two = TwoIdle

(***************************************************************************)
(* getAllMessagesBetweenDates                                              *)
(***************************************************************************)
\* fetchMessagesPage builds the URL: before is sent only when it is truthy
SendRequest(before) ==
    /\ requests' = requests + 1
    /\ reqBefore' = IF Truthy(before) THEN <<before>> ELSE <<>>

\* a loop whose page bound is off by one: pageCount <= maxPages
LoopTopOffByOne(before, acc, count, more, hit) ==
    /\ currentBefore' = before
    /\ allMessages' = acc
    /\ pageCount' = count
    /\ hasMore' = more
    /\ hitOldMessage' = hit
    /\ IF more /\ count <= maxPages /\ ~hit
       THEN IF count > 0
            THEN /\ pc' = "delay"
                 /\ UNCHANGED <<requests, reqBefore, result>>
            ELSE /\ pc' = "fetch"
                 /\ SendRequest(before)
                 /\ UNCHANGED result
       ELSE /\ pc' = "returned"
            /\ result' = SortByTimestamp(acc)
            /\ UNCHANGED <<requests, reqBefore>>

\* the while condition with the locals as the loop body left them, then the
\* code up to the next await, or the sort and the return
LoopTop(before, acc, count, more, hit) ==
    /\ currentBefore' = before
    /\ allMessages' = acc
    /\ pageCount' = count
    /\ hasMore' = more
    /\ hitOldMessage' = hit
    /\ IF more /\ count < maxPages /\ ~hit
       THEN IF count > 0
            THEN /\ pc' = "delay"
                 /\ UNCHANGED <<requests, reqBefore, result>>
            ELSE /\ pc' = "fetch"
                 /\ SendRequest(before)
                 /\ UNCHANGED result
       ELSE /\ pc' = "returned"
            /\ result' = SortByTimestamp(acc)
            /\ UNCHANGED <<requests, reqBefore>>

\* entry of the call up to its first await
Call ==
    /\ pc = "idle"
    /\ LET effective == IF toDate = NullDate THEN now ELSE toDate[1] IN
       /\ effectiveToDate' = effective
       /\ LoopTop(dateToDiscordSnowflake(effective), <<>>, 0, TRUE, FALSE)
    /\ UNCHANGED <<args, error, cause, delays, response, prior, channel, codec, extras>>

\* a loop that requests the next page without waiting
DelaySkipped ==
    /\ pc = "delay"
    /\ delays' = delays
    /\ pc' = "fetch"
    /\ SendRequest(currentBefore)
    /\ response' = <<>>
    /\ prior' = <<>>
    /\ UNCHANGED <<args, locals, outcome, channel, codec, extras>>

\* await this.delay(this.rateLimitDelay) resolves; the next page is requested
DelayDone ==
    /\ pc = "delay"
    /\ delays' = delays + 1
    /\ pc' = "fetch"
    /\ SendRequest(currentBefore)
    /\ response' = <<>>
    /\ prior' = <<>>
    /\ UNCHANGED <<args, locals, outcome, channel, codec, extras>>

\* a loop body that takes the cursor from the first message of the page
ReceivePageFirstId(messages) ==
    /\ response' = <<Response(200, NullStr, messages)>>
    /\ prior' = allMessages
    /\ IF Len(messages) = 0
       THEN LoopTop(currentBefore, allMessages, pageCount, FALSE, hitOldMessage)
       ELSE LET scan == ScanPage(allMessages, messages, fromDate, effectiveToDate) IN
            IF ~scan.hit /\ Len(messages) = PageLimit
            THEN LoopTop(messages[1].id, scan.acc, pageCount + 1, hasMore, scan.hit)
            ELSE LoopTop(currentBefore, scan.acc, pageCount, FALSE, scan.hit)
    /\ UNCHANGED <<args, effectiveToDate, error, cause, delays, channel, codec, extras>>

\* the loop body after await fetchMessagesPage(...) resolved with messages
ReceivePage(messages) ==
    /\ response' = <<Response(200, NullStr, messages)>>
    /\ prior' = allMessages
    /\ IF Len(messages) = 0
       THEN LoopTop(currentBefore, allMessages, pageCount, FALSE, hitOldMessage)
       ELSE LET scan == ScanPage(allMessages, messages, fromDate, effectiveToDate) IN
            IF ~scan.hit /\ Len(messages) = PageLimit
            THEN LoopTop(messages[Len(messages)].id, scan.acc, pageCount + 1, hasMore, scan.hit)
            ELSE LoopTop(currentBefore, scan.acc, pageCount, FALSE, scan.hit)
    /\ UNCHANGED <<args, effectiveToDate, error, cause, delays, channel, codec, extras>>

\* the server answers 2xx with a page about which nothing is assumed
FetchResolved ==
    /\ pc = "fetch"
    /\ \E messages \in AnyPages : ReceivePage(messages)

\* a catch clause that logs the failure and returns what was accumulated
RejectSwallow(thrown) ==
    /\ cause' = <<thrown>>
    /\ error' = error
    /\ result' = SortByTimestamp(allMessages)
    /\ pc' = "returned"

\* the catch clauses of fetchMessagesPage (rethrow) and of
\* getAllMessagesBetweenDates (wrap)
Reject(thrown) ==
    /\ cause' = <<thrown>>
    /\ error' = <<WrapError(thrown)>>
    /\ result' = result
    /\ pc' = "failed"

\* the server answers with a status that is not ok; Retry-After comes with 429
FetchRejected ==
    /\ pc = "fetch"
    /\ \E status \in ErrorStatuses :
       \E header \in (IF status = 429 THEN Headers ELSE {NullStr}) :
         /\ response' = <<Response(status, header, <<>>)>>
         /\ Reject(handleResponse(Response(status, header, <<>>)))
    /\ prior' = allMessages
    /\ UNCHANGED <<args, locals, requests, delays, reqBefore, channel, codec, extras>>

\* fetch() itself rejects: there is no response
FetchThrows ==
    /\ pc = "fetch"
    /\ Reject(ErrorObject("Failed to fetch"))
    /\ UNCHANGED <<args, locals, wire, channel, codec, extras>>

Next == Call \/ DelayDone \/ FetchResolved \/ FetchRejected \/ FetchThrows

Spec == Init /\ [][Next]_vars

(***************************************************************************)
(* A server that holds a channel of messages with snowflake ids and        *)
(* answers a request with the newest PageLimit messages below the cursor   *)
(***************************************************************************)
Snowflake(t, seq) == ((t - DISCORD_EPOCH) * (2 ^ SnowflakeShift)) + seq

ChannelMessages ==
    {Message(BigIntToString(Snowflake(t, seq)), <<t>>) :
        t \in DISCORD_EPOCH..(DISCORD_EPOCH + TimeSpan), seq \in 0..MaxSeq}

IdValue(msg) == StringToBigInt(msg.id)[1]

RECURSIVE NewestFirst(_)
NewestFirst(S) ==
    IF S = {} THEN <<>>
    ELSE LET newest == CHOOSE m \in S : \A o \in S : IdValue(o) <= IdValue(m) IN
         <<newest>> \o NewestFirst(S \ {newest})

ServerPage(before) ==
    LET below == IF before = <<>> THEN channel
                 ELSE {m \in channel : IdValue(m) < StringToBigInt(before[1])[1]}
        ordered == NewestFirst(below)
    IN SubSeq(ordered, 1, IF Len(ordered) < PageLimit THEN Len(ordered) ELSE PageLimit)

ServerFetchResolved ==
    /\ pc = "fetch"
    /\ ReceivePage(ServerPage(reqBefore))

InitServer ==
    /\ Arguments
    /\ Fresh
    /\ channel \in SUBSET ChannelMessages
    /\ codec = CodecIdle
    /\ ui = UiIdle /\ fmt = FmtIdle /\ two = TwoIdle

NextServer == Call \/ DelayDone \/ ServerFetchResolved

SpecServer == InitServer /\ [][NextServer]_vars

(***************************************************************************)
(* The codec applied to one date: encode, then decode                      *)
(***************************************************************************)
CodecDates == {<<t>> : t \in (DISCORD_EPOCH - CodecSpan)..(DISCORD_EPOCH + CodecSpan)} \cup {NaN}

InitCodec ==
    /\ fromDate = NaN /\ toDate = NullDate /\ maxPages = 0
    /\ now = <<DISCORD_EPOCH + TimeSpan>>
    /\ Fresh
    /\ channel = {}
    /\ \E d \in CodecDates : codec = [CodecIdle EXCEPT !.pc = "ready", !.date = d]
    /\ ui = UiIdle /\ fmt = FmtIdle /\ two = TwoIdle

CodecEncode ==
    /\ codec.pc = "ready"
    /\ codec' = [codec EXCEPT !.pc = "encoded",
                              !.snowflake = dateToDiscordSnowflake(codec.date)]
    /\ UNCHANGED <<args, pc, locals, outcome, wire, channel, extras>>

CodecDecode ==
    /\ codec.pc = "encoded"
    /\ codec' = [codec EXCEPT !.pc = "decoded",
                              !.decoded = snowflakeToDate(codec.snowflake)]
    /\ UNCHANGED <<args, pc, locals, outcome, wire, channel, extras>>

NextCodec == CodecEncode \/ CodecDecode

SpecCodec == InitCodec /\ [][NextCodec]_vars

(***************************************************************************)
(* Properties of getAllMessagesBetweenDates under any server (Spec)        *)
(***************************************************************************)
\* toDate, or the current time when toDate is absent
EffectiveTo == IF toDate = NullDate THEN now ELSE toDate[1]

InWindow(msg) == Le(fromDate, msgTime(msg)) /\ Le(msgTime(msg), EffectiveTo)
IsOld(msg) == Lt(msgTime(msg), fromDate)
HasOld(page) == \E j \in 1..Len(page) : IsOld(page[j])
\* position of the first message older than fromDate, Len + 1 when none
FirstOld(page) ==
    IF HasOld(page) THEN CHOOSE j \in 1..Len(page) :
                              IsOld(page[j]) /\ \A k \in 1..(j - 1) : ~IsOld(page[k])
    ELSE Len(page) + 1
Range(seq) == {seq[i] : i \in 1..Len(seq)}
\* the page of the last response, empty when there is none
LastPage == IF response # <<>> THEN response[1].body ELSE <<>>

\* C1: every returned message has fromDate <= timestamp <= effectiveToDate,
\* whatever the pages hold; no message older than fromDate is returned.
C1_ResultWithinWindow ==
    pc = "returned" => \A i \in 1..Len(result) : InWindow(result[i]) /\ ~IsOld(result[i])

\* the call returned messages although its last page held a message newer
\* than the end of the window and one older than fromDate
C1_Witness ==
    /\ pc = "returned" /\ result # <<>> /\ requests = 2
    /\ HasOld(LastPage)
    /\ \E j \in 1..Len(LastPage) : Lt(EffectiveTo, msgTime(LastPage[j]))

\* C3: the returned sequence holds at most one entry per message id.
C3_UniqueIds ==
    pc = "returned" =>
        \A i, j \in 1..Len(result) : result[i].id = result[j].id => i = j

\* an id accumulated from an earlier page came again, in the window, in the
\* last page, and is returned once
C3_Witness ==
    /\ pc = "returned"
    /\ \E i \in 1..Len(prior), j \in 1..Len(LastPage) :
          /\ prior[i].id = LastPage[j].id
          /\ prior[i] # LastPage[j]
          /\ InWindow(LastPage[j]) /\ j < FirstOld(LastPage)
          /\ Cardinality({r \in 1..Len(result) : result[r].id = prior[i].id}) = 1

\* C4: the returned sequence is non-decreasing by timestamp.
C4_SortedByTimestamp ==
    pc = "returned" =>
        \A i, j \in 1..Len(result) : i < j => Le(msgTime(result[i]), msgTime(result[j]))

\* messages were accumulated newest first and are returned oldest first
C4_Witness ==
    /\ pc = "returned" /\ Len(result) >= 2
    /\ \E i, j \in 1..Len(allMessages) :
          i < j /\ Lt(msgTime(allMessages[j]), msgTime(allMessages[i]))

PageBoundHolds ==
    /\ requests <= maxPages
    /\ (pageCount >= maxPages /\ pc # "idle") =>
          /\ pc = "returned" /\ error = <<>>
          /\ Range(result) = Range(allMessages) /\ Len(result) = Len(allMessages)
    /\ (maxPages = 1 /\ pc = "returned") => requests = 1

\* steps the call can still take: each request and each delay uses one up
StepsLeft ==
    IF pc \in {"returned", "failed"} THEN 0
    ELSE 1 + (2 * (maxPages - requests)) + (IF pc = "fetch" THEN 1 ELSE 0)

\* C5: at most maxPages page requests are issued and every step brings the
\* call closer to its end; a walk that fetched maxPages full pages without
\* meeting an old message returns normally with what those pages
\* accumulated; with maxPages = 1 exactly one page is fetched.
C5_PageBound == [](PageBoundHolds /\ StepsLeft >= 0) /\ [][StepsLeft' < StepsLeft]_vars

\* maxPages full pages of in-window messages were fetched and the call
\* returned them
C5_Witness ==
    /\ pc = "returned" /\ maxPages = MaxMaxPages /\ requests = maxPages
    /\ hasMore /\ ~hitOldMessage
    /\ Len(LastPage) = PageLimit
    /\ Len(result) >= 2

\* C6: a page holding a message older than fromDate ends the walk: no
\* request follows it, the call returns, and of that page nothing at or
\* after the old message is taken.
C6_StopsAtOldMessage ==
    HasOld(LastPage) =>
        /\ pc = "returned" /\ hitOldMessage
        /\ \A i \in 1..Len(result) :
              \/ result[i] \in Range(prior)
              \/ \E j \in 1..(FirstOld(LastPage) - 1) : LastPage[j] = result[i]

\* the second page starts with an old message followed by an in-window
\* message that is not returned
C6_Witness ==
    /\ pc = "returned" /\ requests = 2 /\ Len(LastPage) = 2
    /\ IsOld(LastPage[1]) /\ InWindow(LastPage[2])
    /\ LastPage[2] \notin Range(result)
    /\ result # <<>>

\* C7: when a page fetch fails the call fails; nothing accumulated is
\* returned and no request follows the failed one.
C7_FailureAborts ==
    cause # <<>> =>
        /\ pc = "failed" /\ error # <<>> /\ result = <<>>
        /\ requests = pageCount + 1

\* a fetch failed with HTTP 429 after a page had been accumulated
C7_Witness ==
    /\ pc = "failed" /\ allMessages # <<>> /\ requests = 2
    /\ response # <<>> /\ response[1].status = 429

\* everything fetchMessagesPage can throw
Thrown ==
    {handleResponse(Response(status, header, <<>>)) :
        status \in ErrorStatuses, header \in Headers}
        \cup {ErrorObject("Failed to fetch")}

\* C8: the error the call fails with determines the underlying cause of the
\* failed page fetch: no other cause, of any kind and with any
\* retryAfter, is propagated as the same error.
C8_CauseRecoverable ==
    pc = "failed" =>
        \A other \in Thrown : WrapError(other) = error[1] => other = cause[1]

\* the Retry-After header is a decimal integer
IsInteger(header) == Truthy(header) /\ AllDigits(header)

\* C9: a 429 response fails with retryAfter equal to the integer in the
\* Retry-After header when it holds one, and to the default 5 only when the
\* header is absent or not an integer.
C9_RetryAfterFromHeader ==
    (pc = "failed" /\ response # <<>> /\ response[1].status = 429) =>
        LET header == response[1].retryAfter IN
        /\ cause[1].status = <<429>>
        /\ IsInteger(header) => cause[1].retryAfter = <<DigitsToNat(header)>>
        /\ (cause[1].retryAfter = <<DefaultRetryAfter>>) =>
              (~IsInteger(header) \/ DigitsToNat(header) = DefaultRetryAfter)

(***************************************************************************)
(* The window against a server with snowflake ids (SpecServer)             *)
(***************************************************************************)
\* the loop ended on pageCount reaching maxPages
CutShort == hasMore /\ ~hitOldMessage

\* C2: when the walk is not cut short by maxPages, every channel message
\* with fromDate <= timestamp <= toDate is returned, the two bounds included.
C2_WindowInclusive ==
    (pc = "returned" /\ ~CutShort) =>
        \A m \in channel : InWindow(m) => m \in Range(result)

(***************************************************************************)
(* The codec (SpecCodec)                                                   *)
(***************************************************************************)
\* C10: decoding the snowflake encoded from a valid date yields that date,
\* also for dates before the platform epoch.
C10_RoundTrip ==
    (codec.pc = "decoded" /\ codec.date # NaN) =>
        /\ codec.snowflake # NullStr
        /\ codec.decoded # NullDate
        /\ codec.decoded = <<codec.date>>

\* a date before the epoch went through the codec; its snowflake is negative
C10_Witness ==
    /\ codec.pc = "decoded"
    /\ Lt(codec.date, <<DISCORD_EPOCH>>)
    /\ Head(codec.snowflake) = "-"
    /\ codec.decoded = <<codec.date>>

\* ---------------------------------------------------------------------
\* The date dialog (CalendarModal) and the flow behind it
\* (getDiscordSummary).  A date input holds "" or a calendar day; the
\* value is <<>> or <<day>>, and new Date(value) is that day's UTC
\* midnight.
\* ---------------------------------------------------------------------
MaxDay == 9
MaxClicks == 2
MaxFetched == 2
MsPerDay == 86400000
SpanLimit == 7

PickerValues == {<<>>} \cup {<<d>> : d \in 0..MaxDay}

\* new Date(value).getTime()
newDate(value) == value[1] * MsPerDay

\* (end.getTime() - start.getTime()) / (1000 * 60 * 60 * 24); both are
\* UTC midnights, so the quotient is exact
timeSpan(start, end) == (end - start) \div MsPerDay

confirmNoSpanLimit(startValue, endValue) ==
    IF startValue = <<>> \/ endValue = <<>> THEN "both"
    ELSE IF timeSpan(newDate(startValue), newDate(endValue)) < 0 THEN "order"
    ELSE "ok"

\* the checks of the confirm button's click handler, in order
confirm(startValue, endValue) ==
    IF startValue = <<>> \/ endValue = <<>> THEN "both"
    ELSE IF timeSpan(newDate(startValue), newDate(endValue)) < 0 THEN "order"
    ELSE IF timeSpan(newDate(startValue), newDate(endValue)) > SpanLimit THEN "span"
    ELSE "ok"

\* modal.open(): the dialog is shown with the values the user picks
InitUi ==
    /\ fromDate = NaN /\ toDate = NullDate /\ maxPages = 0 /\ now = <<DISCORD_EPOCH>>
    /\ Fresh
    /\ channel = {}
    /\ codec = CodecIdle /\ fmt = FmtIdle /\ two = TwoIdle
    /\ \E s \in PickerValues, e \in PickerValues :
          ui = [pc |-> "open", startValue |-> s, endValue |-> e, open |-> TRUE,
                clicks |-> 0, notices |-> <<>>, callbacks |-> 0, walks |-> 0,
                window |-> <<>>, fetched |-> 0, editor |-> <<>>]

\* a click on Confirm: a failed check shows its notice and returns; else
\* onSelectDates(start, end) runs up to its first await (the Fetching
\* notice, then getAllMessagesBetweenDates starts) and the dialog closes
ConfirmClick ==
    /\ ui.pc = "open"
    /\ ui.clicks < MaxClicks
    /\ LET check == confirm(ui.startValue, ui.endValue) IN
       IF check # "ok"
       THEN ui' = [ui EXCEPT !.clicks = @ + 1, !.notices = Append(@, check)]
       ELSE ui' = [ui EXCEPT !.clicks = @ + 1,
                             !.notices = Append(@, "Fetching messages"),
                             !.callbacks = @ + 1,
                             !.walks = @ + 1,
                             !.window = <<newDate(ui.startValue), newDate(ui.endValue)>>,
                             !.open = FALSE,
                             !.pc = "fetching"]
    /\ UNCHANGED <<args, pc, locals, outcome, wire, channel, codec, fmt, two>>

\* await client.getAllMessagesBetweenDates(...) resolves with n messages:
\* none ends the callback, some lead to the completion call
WalkResolved ==
    /\ ui.pc = "fetching"
    /\ \E n \in 0..MaxFetched :
          ui' = [ui EXCEPT !.fetched = n,
                           !.pc = IF n > 0 THEN "completing" ELSE "done"]
    /\ UNCHANGED <<args, pc, locals, outcome, wire, channel, codec, fmt, two>>

\* await client.getAllMessagesBetweenDates(...) throws: the callback has no
\* try/catch, so its promise rejects and the rest of it never runs
WalkRejected ==
    /\ ui.pc = "fetching"
    /\ ui' = [ui EXCEPT !.pc = "rejected"]
    /\ UNCHANGED <<args, pc, locals, outcome, wire, channel, codec, fmt, two>>

\* what response.choices[0]?.message?.content can be
\* a text, the empty string, or null/undefined
Completions == {<<"t">>, <<>>, NullStr}

\* await getCompletion(...) resolves: if (result) editor.replaceSelection(result)
CompletionResolved ==
    /\ ui.pc = "completing"
    /\ \E content \in Completions :
          ui' = [ui EXCEPT !.editor = IF Truthy(content) THEN Append(@, content) ELSE @,
                           !.pc = "done"]
    /\ UNCHANGED <<args, pc, locals, outcome, wire, channel, codec, fmt, two>>

\* await getCompletion(...) throws (it logs and rethrows)
CompletionRejected ==
    /\ ui.pc = "completing"
    /\ ui' = [ui EXCEPT !.pc = "rejected"]
    /\ UNCHANGED <<args, pc, locals, outcome, wire, channel, codec, fmt, two>>

NextUi == ConfirmClick \/ WalkResolved \/ WalkRejected \/ CompletionResolved \/ CompletionRejected

SpecUi == InitUi /\ [][NextUi]_vars

\* C11: the dialog invokes the window callback only when both dates are
\* selected and 0 <= end - start <= 7 days, and then with exactly these two
\* dates; after a click with a missing date, a negative span or a span over
\* 7 days the callback has not been invoked, no walk has been started and
\* the dialog is still open.
BothSelected == ui.startValue # <<>> /\ ui.endValue # <<>>
SpanInDays == ui.endValue[1] - ui.startValue[1]
C11_DialogGuardsFetch ==
    ui.pc # "idle" =>
        /\ ui.callbacks > 0 =>
              /\ BothSelected
              /\ SpanInDays \in 0..7
              /\ ui.window = <<ui.startValue[1] * MsPerDay, ui.endValue[1] * MsPerDay>>
        /\ (ui.clicks > 0 /\ ~(BothSelected /\ SpanInDays \in 0..7)) =>
              /\ ui.callbacks = 0
              /\ ui.walks = 0
              /\ ui.open
              /\ ui.pc = "open"
C11_Witness ==
    /\ ui.pc = "fetching" /\ ui.callbacks = 1
    /\ SpanInDays = 7

\* C12: when the message fetch or the completion call fails after the
\* window was confirmed, the flow ends with a failure notice shown (a
\* notice after the Fetching one) and nothing written to the editor.
C12_FailureNoticed ==
    ui.pc = "rejected" =>
        /\ ui.notices[Len(ui.notices)] # "Fetching messages"
        /\ ui.editor = <<>>

\* ---------------------------------------------------------------------
\* formatMessagesForPrompt.  An array element is null/undefined
\* (present = FALSE) or a message whose author is <<>> (missing) or
\* <<username>> and whose content is a string or NullStr (missing).
\* ---------------------------------------------------------------------
MaxContentLen == 3
MaxMessages == 2

WhiteSpace == {" ", "\n"}
\* a letter and the line break, which is white space too
ContentChars == {"h", "\n"}
Usernames == {<<"a">>}
Contents == SeqsUpTo(ContentChars, MaxContentLen)

\* the filter reads content only of a message that has an author
FmtMessages ==
    {[present |-> FALSE, author |-> <<>>, content |-> NullStr]}
    \cup {[present |-> TRUE, author |-> <<>>, content |-> <<"h">>]}
    \cup {[present |-> TRUE, author |-> <<u>>, content |-> c] :
             u \in Usernames, c \in Contents \cup {NullStr}}

RECURSIVE trimStart(_)
trimStart(s) ==
    IF s # <<>> /\ s[1] \in WhiteSpace THEN trimStart(Tail(s)) ELSE s

RECURSIVE trimEnd(_)
trimEnd(s) ==
    IF s # <<>> /\ s[Len(s)] \in WhiteSpace
    THEN trimEnd(SubSeq(s, 1, Len(s) - 1)) ELSE s

trimStartOnly(s) == trimStart(s)

\* String.prototype.trim
trim(s) == trimEnd(trimStart(s))

\* msg && msg.author && msg.content
keep(msg) == msg.present /\ msg.author # <<>> /\ Truthy(msg.content)

\* `${msg.author.username}: ${msg.content.trim()}`
line(msg) == msg.author[1] \o <<":", " ">> \o trim(msg.content)

\* Array.prototype.join
RECURSIVE join(_, _)
join(items, separator) ==
    IF items = <<>> THEN <<>>
    ELSE IF Len(items) = 1 THEN items[1]
    ELSE items[1] \o separator \o join(Tail(items), separator)

formatMessagesForPrompt(messages) ==
    LET kept == SelectSeq(messages, keep) IN
    join([i \in 1..Len(kept) |-> line(kept[i])], <<"\n">>)

InitFmt ==
    /\ fromDate = NaN /\ toDate = NullDate /\ maxPages = 0 /\ now = <<DISCORD_EPOCH>>
    /\ Fresh
    /\ channel = {}
    /\ codec = CodecIdle /\ ui = UiIdle /\ two = TwoIdle
    /\ \E messages \in SeqsUpTo(FmtMessages, MaxMessages) :
          fmt = [pc |-> "ready", messages |-> messages, output |-> <<>>]

Format ==
    /\ fmt.pc = "ready"
    /\ fmt' = [fmt EXCEPT !.pc = "done", !.output = formatMessagesForPrompt(fmt.messages)]
    /\ UNCHANGED <<args, pc, locals, outcome, wire, channel, codec, ui, two>>

NextFmt == Format

SpecFmt == InitFmt /\ [][NextFmt]_vars

\* the lines of a text: the pieces between its line breaks; the empty
\* text has none
RECURSIVE SplitLines(_)
SplitLines(text) ==
    IF text = <<>> THEN <<>>
    ELSE IF \A i \in 1..Len(text) : text[i] # "\n" THEN <<text>>
    ELSE LET i == CHOOSE k \in 1..Len(text) :
                    text[k] = "\n" /\ \A j \in 1..(k - 1) : text[j] # "\n"
             rest == SubSeq(text, i + 1, Len(text))
         IN <<SubSeq(text, 1, i - 1)>> \o (IF rest = <<>> THEN <<<<>>>> ELSE SplitLines(rest))

\* the content without the white space at its two ends
Trimmed(content) ==
    IF \A i \in 1..Len(content) : content[i] \in WhiteSpace THEN <<>>
    ELSE LET first == CHOOSE k \in 1..Len(content) :
                        content[k] \notin WhiteSpace
                        /\ \A j \in 1..(k - 1) : content[j] \in WhiteSpace
             last == CHOOSE k \in 1..Len(content) :
                        content[k] \notin WhiteSpace
                        /\ \A j \in (k + 1)..Len(content) : content[j] \in WhiteSpace
         IN SubSeq(content, first, last)

\* the input messages that have an author and a (non-empty) content
WithAuthorAndContent ==
    SelectSeq(fmt.messages,
              LAMBDA msg : msg.present /\ msg.author # <<>>
                           /\ msg.content # NullStr /\ msg.content # <<>>)

\* "username: trimmed content" of each such message, in input order
Expected ==
    [i \in 1..Len(WithAuthorAndContent) |->
        WithAuthorAndContent[i].author[1] \o <<":", " ">>
            \o Trimmed(WithAuthorAndContent[i].content)]

RECURSIVE Flatten(_)
Flatten(seqs) == IF seqs = <<>> THEN <<>> ELSE seqs[1] \o Flatten(Tail(seqs))

\* C13 as stated: the output's lines are exactly one line
\* "username: trimmed content" per message that has an author and a
\* content, in input order, so there are as many lines as such messages.
C13_OneLinePerMessage ==
    fmt.pc = "done" =>
        /\ SplitLines(fmt.output) = Expected
        /\ Len(SplitLines(fmt.output)) = Len(WithAuthorAndContent)

\* C13 amended: the output is the texts "username: trimmed content" of the
\* messages that have an author and a non-empty content, in input order,
\* joined by line breaks: its lines are the lines of these texts in order,
\* one line per message exactly when no trimmed content holds a line break;
\* no such message gives the empty string.
C13_OneEntryPerMessage ==
    fmt.pc = "done" =>
        /\ SplitLines(fmt.output) =
              Flatten([i \in 1..Len(Expected) |-> SplitLines(Expected[i])])
        /\ (\A i \in 1..Len(Expected) : Len(SplitLines(Expected[i])) = 1)
              => SplitLines(fmt.output) = Expected
        /\ (\E i \in 1..Len(Expected) : Len(SplitLines(Expected[i])) > 1)
              => Len(SplitLines(fmt.output)) > Len(WithAuthorAndContent)
        /\ WithAuthorAndContent = <<>> => fmt.output = <<>>
C13_Witness ==
    /\ fmt.pc = "done"
    /\ Len(fmt.messages) = 2
    /\ Len(WithAuthorAndContent) = 1
    /\ Len(SplitLines(fmt.output)) = 2

\* ---------------------------------------------------------------------
\* The cursor and the pacing of a walk
\* ---------------------------------------------------------------------
\* C14: when the end date cannot be encoded (the codec returns null, as for
\* an invalid toDate) the call aborts: it issues no page request, so none
\* without a before-cursor.
C14_NullCursorAborts ==
    (pc # "idle" /\ dateToDiscordSnowflake(EffectiveTo) = NullStr) =>
        /\ requests = 0
        /\ pc # "fetch"

\* C15: page requests and delays alternate: no delay has completed before
\* the first request, and between two requests of the walk exactly one
\* delay completes, the later request following it at once; a wait is
\* pending only between two requests.
C15_DelayBetweenRequests ==
    /\ requests = 0 => delays = 0
    /\ requests > 0 => delays = requests - 1
    /\ pc = "delay" => requests > 0

C15_Witness == pc = "fetch" /\ requests = 2 /\ delays = 1

\* the request a step issues, if it issues one
Requested == requests' = requests + 1

\* C16: the first request of a walk carries the cursor encoded from the end
\* date; every later request carries the id of the last message of the page
\* received just before it, and is issued only after a page of exactly
\* PageLimit messages none of which is older than fromDate; after an empty
\* or short page the walk has ended.
ShortPageEnds ==
    (response # <<>> /\ response[1].status = 200 /\ Len(LastPage) < PageLimit)
        => pc = "returned"
CursorStep ==
    Requested =>
        IF requests = 0
        THEN LET first == dateToDiscordSnowflake(EffectiveTo) IN
             reqBefore' = IF Truthy(first) THEN <<first>> ELSE <<>>
        ELSE /\ response # <<>> /\ response[1].status = 200
             /\ Len(LastPage) = PageLimit
             /\ ~HasOld(LastPage)
             /\ reqBefore' = <<LastPage[Len(LastPage)].id>>
C16_CursorRule == []ShortPageEnds /\ [][CursorStep]_vars

C16_Witness ==
    /\ pc = "fetch" /\ requests = 2
    /\ reqBefore # <<dateToDiscordSnowflake(EffectiveTo)>>
    /\ reqBefore = <<"1">>

\* ---------------------------------------------------------------------
\* Two calls of getAllMessagesBetweenDates on one Discord instance, against
\* the server that holds a channel.  The instance has two fields, apiBase
\* and rateLimitDelay, both only read; effectiveToDate, currentBefore,
\* allMessages, pageCount, hasMore and hitOldMessage are locals of a call.
\* ---------------------------------------------------------------------
CallIds == {1, 2}

\* locals kept as fields of the instance: every call uses the same ones
ScopeShared(c) == 1

\* the locals a call reads and writes: those of its own invocation
Scope(c) == c

NewFrame ==
    [effectiveToDate |-> NaN, currentBefore |-> NullStr, allMessages |-> <<>>,
     pageCount |-> 0, hasMore |-> TRUE, hitOldMessage |-> FALSE]

\* the declarations before the loop
enter(to) ==
    LET effective == IF to = NullDate THEN now ELSE to[1] IN
    [NewFrame EXCEPT !.effectiveToDate = effective,
                     !.currentBefore = dateToDiscordSnowflake(effective)]

\* the while condition
goesOn(frame, limit) == frame.hasMore /\ frame.pageCount < limit /\ ~frame.hitOldMessage

\* the loop body after the page came
loopBody(frame, messages, from) ==
    IF Len(messages) = 0 THEN [frame EXCEPT !.hasMore = FALSE]
    ELSE LET scan == ScanPage(frame.allMessages, messages, from, frame.effectiveToDate) IN
         IF ~scan.hit /\ Len(messages) = PageLimit
         THEN [frame EXCEPT !.allMessages = scan.acc, !.hitOldMessage = scan.hit,
                            !.currentBefore = messages[Len(messages)].id,
                            !.pageCount = @ + 1]
         ELSE [frame EXCEPT !.allMessages = scan.acc, !.hitOldMessage = scan.hit,
                            !.hasMore = FALSE]

\* the before parameter fetchMessagesPage puts in the URL
UrlBefore(before) == IF Truthy(before) THEN <<before>> ELSE <<>>

\* call c stores its locals and runs on to its next await or to its return
TwoLoopTop(c, frame) ==
    two' = [two EXCEPT
        !.frames[Scope(c)] = frame,
        !.calls[c] =
            IF goesOn(frame, @.maxPages)
            THEN IF frame.pageCount > 0
                 THEN [@ EXCEPT !.pc = "delay"]
                 ELSE [@ EXCEPT !.pc = "fetch", !.reqBefore = UrlBefore(frame.currentBefore)]
            ELSE [@ EXCEPT !.pc = "returned", !.result = SortByTimestamp(frame.allMessages)]]

TwoCall(c) ==
    /\ two.calls[c].pc = "idle"
    /\ TwoLoopTop(c, enter(two.calls[c].toDate))
    /\ UNCHANGED <<args, pc, locals, outcome, wire, channel, codec, ui, fmt>>

TwoDelayDone(c) ==
    /\ two.calls[c].pc = "delay"
    /\ two' = [two EXCEPT !.calls[c].pc = "fetch",
                          !.calls[c].reqBefore = UrlBefore(two.frames[Scope(c)].currentBefore)]
    /\ UNCHANGED <<args, pc, locals, outcome, wire, channel, codec, ui, fmt>>

TwoFetchResolved(c) ==
    /\ two.calls[c].pc = "fetch"
    /\ TwoLoopTop(c, loopBody(two.frames[Scope(c)], ServerPage(two.calls[c].reqBefore),
                              two.calls[c].fromDate))
    /\ UNCHANGED <<args, pc, locals, outcome, wire, channel, codec, ui, fmt>>

\* a call's arguments: any start of the window; its end absent, the epoch
\* or invalid; one page or the most pages
TwoArguments ==
    [pc : {"idle"}, fromDate : Dates, toDate : {NullDate, <<<<DISCORD_EPOCH>>>>, <<NaN>>},
     maxPages : {1, MaxMaxPages}, reqBefore : {<<>>}, result : {<<>>}]

InitTwo ==
    /\ fromDate = NaN /\ toDate = NullDate /\ maxPages = 0
    /\ now = <<DISCORD_EPOCH + TimeSpan>>
    /\ Fresh
    /\ channel = ChannelMessages
    /\ codec = CodecIdle /\ ui = UiIdle /\ fmt = FmtIdle
    /\ \E calls \in [CallIds -> TwoArguments] :
          two = [pc |-> "run", calls |-> calls, frames |-> [c \in CallIds |-> NewFrame]]

NextTwo == \E c \in CallIds : TwoCall(c) \/ TwoDelayDone(c) \/ TwoFetchResolved(c)

SpecTwo == InitTwo /\ [][NextTwo]_vars

\* the walk of one call from the state of its locals, run without
\* interruption against the server
RECURSIVE WalkAlone(_, _, _)
WalkAlone(frame, from, limit) ==
    IF goesOn(frame, limit)
    THEN WalkAlone(loopBody(frame, ServerPage(UrlBefore(frame.currentBefore)), from),
                   from, limit)
    ELSE SortByTimestamp(frame.allMessages)

Alone(c) == WalkAlone(enter(two.calls[c].toDate), two.calls[c].fromDate, two.calls[c].maxPages)

\* C17: however two calls on one instance interleave at their awaits, a call
\* that returns has the result it has when run alone, and a step of one
\* call leaves the other's cursor, accumulated messages, page count and
\* stop flags as they were.
ResultAsAlone ==
    two.pc = "run" =>
        \A c \in CallIds : two.calls[c].pc = "returned" => two.calls[c].result = Alone(c)
OthersUntouched ==
    \A c \in CallIds : two'.calls[c] = two.calls[c] => two'.frames[c] = two.frames[c]
C17_CallsIsolated == []ResultAsAlone /\ [][OthersUntouched]_vars

C17_Witness ==
    /\ two.pc = "run"
    /\ two.calls[1].pc = "returned" /\ Len(two.calls[1].result) = 2
    /\ two.calls[2].pc = "delay" /\ two.frames[2].pageCount = 1
    /\ Range(two.frames[2].allMessages) # Range(two.calls[1].result)
====
